---- MODULE Spec2Model ----
(***************************************************************************)
(* Model of preston_rpa/ocr_engine.py: the text normaliser, the            *)
(* Ratcliff/Obershelp ratio of difflib.SequenceMatcher, the capture and    *)
(* line aggregation of OCREngine._screenshot / _find_text_engine, the      *)
(* backend loop of find_text_on_screen, the polling loop of wait_for_text  *)
(* and the word-pair search of find_word_pair.                             *)
(*                                                                         *)
(* A Python str is a sequence of characters; a character is a TLA+ string  *)
(* (its ASCII spelling, or a name for a non-ASCII code point).             *)
(***************************************************************************)
EXTENDS Integers, Sequences, FiniteSets, TLC

\* Python's None where a tuple is expected (a box, a region, an image size).
None == <<>>
\* OCREngine.reader when it is None.
NoReader == "None"

Min2(a, b) == IF a <= b THEN a ELSE b
Max2(a, b) == IF a >= b THEN a ELSE b
SetMin(S) == CHOOSE x \in S : \A y \in S : x <= y
SetMax(S) == CHOOSE x \in S : \A y \in S : x >= y

RECURSIVE Flatten(_)
Flatten(ss) == IF ss = <<>> THEN <<>> ELSE Head(ss) \o Flatten(Tail(ss))

(***************************************************************************)
(* Characters.  Non-ASCII code points by name:                             *)
(*   I_dot U+0130, i_nodot U+0131, S_ced U+015E, s_ced U+015F,             *)
(*   G_breve U+011E, g_breve U+011F, C_ced U+00C7, c_ced U+00E7,           *)
(*   O_uml U+00D6, o_uml U+00F6, U_uml U+00DC, u_uml U+00FC,               *)
(*   A_tilde U+00C3, a_tilde U+00E3, sect U+00A7, sharp_s U+00DF,          *)
(*   AE U+00C6, ae U+00E6,                                                 *)
(*   cjk (any code point a three-byte UTF-8 sequence decodes to),          *)
(*   cmb_dot U+0307, cmb_ced U+0327, cmb_breve U+0306, cmb_uml U+0308,     *)
(*   cmb_tilde U+0303, endash U+2013, emdash U+2014, minus U+2212,         *)
(*   tab U+0009.                                                           *)
(***************************************************************************)
UpperAscii == <<"A","B","C","D","E","F","G","H","I","J","K","L","M",
                "N","O","P","Q","R","S","T","U","V","W","X","Y","Z">>
LowerAscii == <<"a","b","c","d","e","f","g","h","i","j","k","l","m",
                "n","o","p","q","r","s","t","u","v","w","x","y","z">>

IndexIn(c, seq) == IF \E i \in 1..Len(seq) : seq[i] = c
                   THEN CHOOSE i \in 1..Len(seq) : seq[i] = c
                   ELSE 0

\* Code points U+0080..U+00FF: one Latin-1 byte each.
Latin1High == {"C_ced", "c_ced", "O_uml", "o_uml", "U_uml", "u_uml",
               "A_tilde", "a_tilde", "sect", "sharp_s", "AE", "ae"}
\* Code points above U+00FF: str.encode("latin-1") raises on them.
WideChars == {"I_dot", "i_nodot", "S_ced", "s_ced", "G_breve", "g_breve",
              "cmb_dot", "cmb_ced", "cmb_breve", "cmb_uml", "cmb_tilde",
              "endash", "emdash", "minus", "cjk"}

\* UTF-8 roles of the Latin-1 bytes of the alphabet.
IsLead2(c) == c \in {"A_tilde", "C_ced", "O_uml", "U_uml", "sharp_s", "AE"}
IsLead3(c) == c \in {"c_ced", "a_tilde", "ae"}
IsCont(c) == c = "sect"

\* The code point a valid two-byte sequence decodes to; only C3 A7 stays
\* inside the alphabet (U+00E7), the others are wide code points.
Decode2(lead, cont) == IF lead = "A_tilde" /\ cont = "sect" THEN "c_ced" ELSE "cjk"

RECURSIVE Utf8Valid(_)
Utf8Valid(s) ==
    IF s = <<>> THEN TRUE
    ELSE IF Head(s) \notin Latin1High THEN Utf8Valid(Tail(s))
    ELSE IF IsLead2(Head(s)) THEN
        Len(s) >= 2 /\ IsCont(s[2]) /\ Utf8Valid(SubSeq(s, 3, Len(s)))
    ELSE IF IsLead3(Head(s)) THEN
        Len(s) >= 3 /\ IsCont(s[2]) /\ IsCont(s[3]) /\ Utf8Valid(SubSeq(s, 4, Len(s)))
    ELSE FALSE

RECURSIVE Utf8Decode(_)
Utf8Decode(s) ==
    IF s = <<>> THEN <<>>
    ELSE IF Head(s) \notin Latin1High THEN <<Head(s)>> \o Utf8Decode(Tail(s))
    ELSE IF IsLead2(Head(s)) THEN
        <<Decode2(s[1], s[2])>> \o Utf8Decode(SubSeq(s, 3, Len(s)))
    ELSE <<"cjk">> \o Utf8Decode(SubSeq(s, 4, Len(s)))

\* demojibake: s.encode("latin-1").decode("utf-8"), the input on any failure.
demojibake(s) ==
    IF \E i \in 1..Len(s) : s[i] \in WideChars THEN s
    ELSE IF Utf8Valid(s) THEN Utf8Decode(s)
    ELSE s

\* unicodedata.normalize("NFKD", .) of one character.
NfkdChar(c) ==
    CASE c = "I_dot"   -> <<"I", "cmb_dot">>
      [] c = "S_ced"   -> <<"S", "cmb_ced">>
      [] c = "s_ced"   -> <<"s", "cmb_ced">>
      [] c = "G_breve" -> <<"G", "cmb_breve">>
      [] c = "g_breve" -> <<"g", "cmb_breve">>
      [] c = "C_ced"   -> <<"C", "cmb_ced">>
      [] c = "c_ced"   -> <<"c", "cmb_ced">>
      [] c = "O_uml"   -> <<"O", "cmb_uml">>
      [] c = "o_uml"   -> <<"o", "cmb_uml">>
      [] c = "U_uml"   -> <<"U", "cmb_uml">>
      [] c = "u_uml"   -> <<"u", "cmb_uml">>
      [] c = "A_tilde" -> <<"A", "cmb_tilde">>
      [] OTHER         -> <<c>>

Nfkd(s) == Flatten([i \in 1..Len(s) |-> NfkdChar(s[i])])

\* str.maketrans of the thirteen Turkish letters to their ASCII letters.
TranslateChar(c) ==
    CASE c = "I_dot"   -> "I"
      [] c = "i_nodot" -> "i"
      [] c = "S_ced"   -> "S"
      [] c = "s_ced"   -> "s"
      [] c = "G_breve" -> "G"
      [] c = "g_breve" -> "g"
      [] c = "C_ced"   -> "C"
      [] c = "c_ced"   -> "c"
      [] c = "O_uml"   -> "O"
      [] c = "o_uml"   -> "o"
      [] c = "U_uml"   -> "U"
      [] c = "u_uml"   -> "u"
      [] OTHER         -> c

Translate(s) == [i \in 1..Len(s) |-> TranslateChar(s[i])]

\* re.sub(r"[-–—−-]", "-", s)
DashChar(c) == IF c \in {"-", "endash", "emdash", "minus"} THEN "-" ELSE c
Dashes(s) == [i \in 1..Len(s) |-> DashChar(s[i])]

IsSpace(c) == c \in {" ", "tab"}

\* re.sub(r"\s+", " ", s): every run of whitespace becomes one space.
RECURSIVE CollapseSpaces(_)
CollapseSpaces(s) ==
    IF s = <<>> THEN <<>>
    ELSE IF IsSpace(Head(s)) THEN
        IF Len(s) >= 2 /\ IsSpace(s[2]) THEN CollapseSpaces(Tail(s))
        ELSE <<" ">> \o CollapseSpaces(Tail(s))
    ELSE <<Head(s)>> \o CollapseSpaces(Tail(s))

\* str.strip()
RECURSIVE LStrip(_)
LStrip(s) == IF s # <<>> /\ IsSpace(Head(s)) THEN LStrip(Tail(s)) ELSE s
RECURSIVE RStrip(_)
RStrip(s) == IF s # <<>> /\ IsSpace(s[Len(s)]) THEN RStrip(SubSeq(s, 1, Len(s) - 1)) ELSE s
Strip(s) == RStrip(LStrip(s))

\* str.lower() of one character (U+0130 lowers to "i" + U+0307).
LowerChar(c) ==
    IF IndexIn(c, UpperAscii) # 0 THEN <<LowerAscii[IndexIn(c, UpperAscii)]>>
    ELSE CASE c = "I_dot"   -> <<"i", "cmb_dot">>
           [] c = "S_ced"   -> <<"s_ced">>
           [] c = "G_breve" -> <<"g_breve">>
           [] c = "C_ced"   -> <<"c_ced">>
           [] c = "O_uml"   -> <<"o_uml">>
           [] c = "U_uml"   -> <<"u_uml">>
           [] c = "A_tilde" -> <<"a_tilde">>
           [] c = "AE"      -> <<"ae">>
           [] OTHER         -> <<c>>
Lower(s) == Flatten([i \in 1..Len(s) |-> LowerChar(s[i])])

\* str.casefold(): lower(), and sharp s folds to "ss".
CasefoldChar(c) == IF c = "sharp_s" THEN <<"s", "s">> ELSE LowerChar(c)
Casefold(s) == Flatten([i \in 1..Len(s) |-> CasefoldChar(s[i])])

normalize_tr(s) == Lower(Strip(CollapseSpaces(Dashes(Translate(Nfkd(demojibake(s)))))))

(***************************************************************************)
(* difflib.SequenceMatcher(None, a, b).ratio() without junk (autojunk only *)
(* acts on sequences of 200 or more elements).  Indices are Python's:      *)
(* 0-based, half-open ranges.                                              *)
(***************************************************************************)
BlockAt(a, b, i, j, k) == \A d \in 0..(k - 1) : a[i + d + 1] = b[j + d + 1]

\* Sizes of the common blocks inside a[alo:ahi], b[blo:bhi].
BlockSizes(a, alo, ahi, b, blo, bhi) ==
    {k \in 0..Min2(ahi - alo, bhi - blo) :
        \E i \in alo..(ahi - k), j \in blo..(bhi - k) : BlockAt(a, b, i, j, k)}

\* find_longest_match: the longest block, of those the one starting earliest
\* in a, of those the one starting earliest in b.  <<i, j, k>>.
find_longest_match(a, alo, ahi, b, blo, bhi) ==
    LET k == SetMax(BlockSizes(a, alo, ahi, b, blo, bhi))
        i == SetMin({x \in alo..(ahi - k) :
                        \E y \in blo..(bhi - k) : BlockAt(a, b, x, y, k)})
        j == SetMin({y \in blo..(bhi - k) : BlockAt(a, b, i, y, k)})
    IN  IF k = 0 THEN <<alo, blo, 0>> ELSE <<i, j, k>>

\* get_matching_blocks: the sum of the block sizes found by the recursion
\* to the left and to the right of the longest block.
RECURSIVE MatchSize(_, _, _, _, _, _)
MatchSize(a, alo, ahi, b, blo, bhi) ==
    LET m == find_longest_match(a, alo, ahi, b, blo, bhi)
    IN  IF m[3] = 0 THEN 0
        ELSE m[3]
             + (IF alo < m[1] /\ blo < m[2]
                THEN MatchSize(a, alo, m[1], b, blo, m[2]) ELSE 0)
             + (IF m[1] + m[3] < ahi /\ m[2] + m[3] < bhi
                THEN MatchSize(a, m[1] + m[3], ahi, b, m[2] + m[3], bhi) ELSE 0)

Matches(a, b) == MatchSize(a, 0, Len(a), b, 0, Len(b))

\* ratio() >= pct / 100, where ratio() is 2.0 * matches / length, and 1.0
\* when both sequences are empty.
RatioAtLeast(a, b, pct) ==
    IF Len(a) + Len(b) = 0 THEN 100 >= pct
    ELSE 200 * Matches(a, b) >= pct * (Len(a) + Len(b))

\* Python's "needle in hay" for str.
Contains(hay, needle) ==
    \E i \in 0..(Len(hay) - Len(needle)) :
        \A d \in 1..Len(needle) : hay[i + d] = needle[d]

(***************************************************************************)
(* Bounds of the model and the inputs drawn from them.                     *)
(***************************************************************************)
\* Longest token list one backend run returns.
MaxTokens == 2
\* Largest timeout handed to wait_for_text, in units of the 0.5 s backoff.
MaxTimeout == 2
\* The clock stops advancing here (units of 0.5 s).
MaxClock == 4

\* Size of pyautogui.screenshot(), in pixels.
ScreenW == 12
ScreenH == 12

\* _preprocess_image: cv2.resize(gray, None, fx=3, fy=3, ...)
ResizeFactor == 3

\* Default confidence of find_text_on_screen, as a percentage.
OCR_CONFIDENCE == 80

\* Values the module-level OCR_FUZZY_THRESHOLD can hold, as percentages.
FuzzyThresholds == {60, 80}

\* Faulty variant of ENGINES: the two backends in the opposite order.
ENGINES_TesseractFirst == << <<FALSE, "tesseract">>, <<TRUE, "easyocr">> >>

\* The backends of find_text_on_screen in the order of its for loop:
\* (use_easyocr, name).
ENGINES == << <<TRUE, "easyocr">>, <<FALSE, "tesseract">> >>

\* pytesseract runs with --psm 7: the image is one text line, so every word
\* row carries the same (page_num, block_num, par_num, line_num).
TesseractLineKey == <<1, 1, 1, 1>>

\* A recognised word, in pixels of the processed image.
Tok(t, l, tp, c) == [text |-> t, left |-> l, top |-> tp, width |-> 6, height |-> 6,
                     conf |-> c]

\* The words a backend can report: three spellings at two columns and two
\* rows more than 10 px apart, a blank word and a word of low confidence.
Tokens ==
    { Tok(<<"a">>, 0, 0, 90),
      Tok(<<"A", "b">>, 12, 0, 90),
      Tok(<<"A", "b">>, 0, 11, 90),
      Tok(<<"a", "b", "b">>, 0, 0, 90),
      Tok(<<"a", "b", "b">>, 12, 11, 90),
      Tok(<<" ">>, 0, 0, 90),
      Tok(<<"a">>, 0, 11, 50) }

TokenLists == UNION {[1..n -> Tokens] : n \in 0..MaxTokens}

\* What one run of a backend on one capture yields.
BackendOutcomes ==
    {[kind |-> "capture_failed", toks |-> <<>>],
     [kind |-> "malformed", toks |-> <<Tok(<<"a">>, 0, 0, 90)>>]}
    \cup {[kind |-> "tokens", toks |-> ts] : ts \in TokenLists}

\* The text argument: a str or a list of str.
TextArgs ==
    {[kind |-> "str", val |-> v] : v \in { <<>>, <<"a", "b">>, <<"A", " ", " ", "a", "B">> }}
    \cup {[kind |-> "list", val |-> vs] :
            vs \in { <<>>, << <<"b", "b">>, <<"a", "b">> >> }}

Regions == {None, <<2, 2, 8, 8>>, <<1, 2, 0, 8>>}
RegionPads == {0, 3}

(***************************************************************************)
(* OCREngine._screenshot                                                   *)
(***************************************************************************)
\* The rectangle cropped out of the screenshot: the region, grown by
\* region_pad on every side with its origin clamped at 0.
PaddedRegion(region, region_pad) ==
    IF region_pad # 0
    THEN << Max2(0, region[1] - region_pad), Max2(0, region[2] - region_pad),
            region[3] + region_pad * 2, region[4] + region_pad * 2 >>
    ELSE region

\* Size of raw_img: the crop, or the whole screenshot.
RawSize(region, region_pad) ==
    IF region # None
    THEN << PaddedRegion(region, region_pad)[3], PaddedRegion(region, region_pad)[4] >>
    ELSE << ScreenW, ScreenH >>

\* Size of processed_img.
ProcessedSize(region, region_pad) ==
    << ResizeFactor * RawSize(region, region_pad)[1],
       ResizeFactor * RawSize(region, region_pad)[2] >>

\* A backend reports boxes inside the image it was given.
FitsIn(tok, size) ==
    /\ tok.left >= 0 /\ tok.top >= 0
    /\ tok.left + tok.width <= size[1]
    /\ tok.top + tok.height <= size[2]

\* df.sort_values("top"): rows in ascending top, equal tops in input order.
RECURSIVE InsertByTop(_, _)
InsertByTop(sorted, row) ==
    IF sorted = <<>> THEN <<row>>
    ELSE IF sorted[Len(sorted)].top <= row.top THEN Append(sorted, row)
    ELSE Append(InsertByTop(SubSeq(sorted, 1, Len(sorted) - 1), row), sorted[Len(sorted)])

RECURSIVE SortByTop(_)
SortByTop(rows) ==
    IF rows = <<>> THEN <<>>
    ELSE InsertByTop(SortByTop(SubSeq(rows, 1, Len(rows) - 1)), rows[Len(rows)])

\* Faulty variant of NumberLines: a row 10 px below last_top already opens a
\* new line.
RECURSIVE NumberLines_GapInclusive(_, _, _)
NumberLines_GapInclusive(rows, line_num, last_top) ==
    IF rows = <<>> THEN <<>>
    ELSE LET new == Head(rows).top - last_top >= 10
             n   == IF new THEN line_num + 1 ELSE line_num
             lt  == IF new THEN Head(rows).top ELSE last_top
         IN  << [Head(rows) EXCEPT !.key = <<0, 0, 0, n>>] >>
             \o NumberLines_GapInclusive(Tail(rows), n, lt)

\* The line_num loop of the EasyOCR branch over the sorted rows: a row more
\* than 10 px below last_top opens a new line and becomes its reference.
RECURSIVE NumberLines(_, _, _)
NumberLines(rows, line_num, last_top) ==
    IF rows = <<>> THEN <<>>
    ELSE LET new == Head(rows).top - last_top > 10
             n   == IF new THEN line_num + 1 ELSE line_num
             lt  == IF new THEN Head(rows).top ELSE last_top
         IN  << [Head(rows) EXCEPT !.key = <<0, 0, 0, n>>] >>
             \o NumberLines(Tail(rows), n, lt)

WithKey(rows, k) ==
    [i \in 1..Len(rows) |->
        [text |-> rows[i].text, left |-> rows[i].left, top |-> rows[i].top,
         width |-> rows[i].width, height |-> rows[i].height, conf |-> rows[i].conf,
         key |-> k]]

\* The data frame of the EasyOCR branch (self.use_easyocr and self.reader).
EasyOcrFrame(toks) == NumberLines(SortByTop(WithKey(toks, <<0, 0, 0, 0>>)), 0, -9999)

\* The data frame of the pytesseract branch: the word rows as emitted.
TesseractFrame(toks) == WithKey(toks, TesseractLineKey)

\* _screenshot's result for one backend outcome: [img, df, used_region].
\* img is the size of processed_img, or None after the except branch: the
\* capture failed, the crop is empty, reader.readtext raised, or the EasyOCR
\* result is empty and has no "top" column to sort.  numeric is TRUE when
\* pandas read the text column of the pytesseract rows as numbers.
ScreenshotFailed == [img |-> None, df |-> <<>>, used_region |-> None, numeric |-> FALSE]

Screenshot(region, region_pad, easy, outcome) ==
    IF \/ outcome.kind = "capture_failed"
       \/ RawSize(region, region_pad)[1] <= 0
       \/ RawSize(region, region_pad)[2] <= 0
       \/ (easy /\ outcome.kind = "malformed")
       \/ (easy /\ outcome.kind = "tokens" /\ outcome.toks = <<>>)
    THEN ScreenshotFailed
    ELSE [img |-> ProcessedSize(region, region_pad),
          df  |-> IF easy THEN EasyOcrFrame(outcome.toks)
                  ELSE TesseractFrame(outcome.toks),
          used_region |-> IF region # None THEN PaddedRegion(region, region_pad)
                          ELSE None,
          numeric |-> outcome.kind = "malformed"]

(***************************************************************************)
(* OCREngine._find_text_engine, after the capture                          *)
(***************************************************************************)
\* df[df["conf"] >= confidence * 100], then rows of blank text skipped.
KeptRows(df, confidence) ==
    SelectSeq(df, LAMBDA row : row.conf >= confidence /\ Strip(row.text) # <<>>)

\* Keys of the lines dict in insertion order.
RECURSIVE LineKeys(_)
LineKeys(rows) ==
    IF rows = <<>> THEN <<>>
    ELSE LET rest == LineKeys(SubSeq(rows, 1, Len(rows) - 1))
             k    == rows[Len(rows)].key
         IN  IF \E i \in 1..Len(rest) : rest[i] = k THEN rest ELSE Append(rest, k)

\* " ".join(words)
RECURSIVE JoinWords(_)
JoinWords(words) ==
    IF words = <<>> THEN <<>>
    ELSE IF Len(words) = 1 THEN words[1]
    ELSE words[1] \o <<" ">> \o JoinWords(Tail(words))

\* One entry of the lines dict: its rows in the order they were appended.
LineOf(rows, k) == SelectSeq(rows, LAMBDA row : row.key = k)

\* The lines dict as a sequence of [rows] in insertion order.
Lines(df, confidence) ==
    LET rows == KeptRows(df, confidence)
        keys == LineKeys(rows)
    IN  [i \in 1..Len(keys) |-> LineOf(rows, keys[i])]

line_text(line) == JoinWords([i \in 1..Len(line) |-> line[i].text])

line_norm(line, normalize) ==
    IF normalize THEN normalize_tr(line_text(line)) ELSE Casefold(line_text(line))

\* Faulty variant of LineBox: the height of the first word stands for the
\* height of the line.
LineBox_FirstWordHeight(line) ==
    LET x == SetMin({line[i].left : i \in 1..Len(line)})
        y == SetMin({line[i].top : i \in 1..Len(line)})
    IN  << x, y,
           SetMax({line[i].left + line[i].width : i \in 1..Len(line)}) - x,
           line[1].height >>

\* The box of a line in processed-image pixels: <<x, y, w, h>>.
LineBox(line) ==
    LET x == SetMin({line[i].left : i \in 1..Len(line)})
        y == SetMin({line[i].top : i \in 1..Len(line)})
    IN  << x, y,
           SetMax({line[i].left + line[i].width : i \in 1..Len(line)}) - x,
           SetMax({line[i].top + line[i].height : i \in 1..Len(line)}) - y >>

\* The value returned for a matching line: the line box, moved by the origin
\* of used_region when there is one.
ReturnedBox(line, used_region) ==
    IF used_region # None
    THEN << LineBox(line)[1] + used_region[1], LineBox(line)[2] + used_region[2],
            LineBox(line)[3], LineBox(line)[4] >>
    ELSE LineBox(line)

\* Faulty variant of TargetMatches: the substring test runs in both directions.
TargetMatches_EitherDirection(norm, target, threshold) ==
    Contains(norm, target) \/ Contains(target, norm)
    \/ RatioAtLeast(norm, target, threshold)

\* if target in line_norm or ratio >= OCR_FUZZY_THRESHOLD
TargetMatches(norm, target, threshold) ==
    Contains(norm, target) \/ RatioAtLeast(norm, target, threshold)

LineMatches(line, targets, normalize, threshold) ==
    \E t \in 1..Len(targets) : TargetMatches(line_norm(line, normalize), targets[t], threshold)

\* Faulty variant of MatchedLine: a line whose text equals a target is preferred to
\* an earlier line that only contains or resembles one.
MatchedLine_PrefersExact(lines, targets, normalize, threshold) ==
    LET exact == {i \in 1..Len(lines) :
                    \E t \in 1..Len(targets) : line_norm(lines[i], normalize) = targets[t]}
        any   == {i \in 1..Len(lines) : LineMatches(lines[i], targets, normalize, threshold)}
    IN  IF exact # {} THEN SetMin(exact)
        ELSE IF any # {} THEN SetMin(any)
        ELSE 0

\* Index of the line the two nested for loops return on, 0 when they end.
MatchedLine(lines, targets, normalize, threshold) ==
    IF \E i \in 1..Len(lines) : LineMatches(lines[i], targets, normalize, threshold)
    THEN SetMin({i \in 1..Len(lines) : LineMatches(lines[i], targets, normalize, threshold)})
    ELSE 0

\* " ".join(line["words"]) raises TypeError on a word that is not a str.
FindTextEngineRaises(shot) == shot.img # None /\ shot.numeric

\* The return value of _find_text_engine for a capture [img, df, used_region].
FindTextEngine(shot, targets, confidence, normalize, threshold) ==
    IF shot.img = None \/ shot.df = <<>> THEN None
    ELSE LET lines == Lines(shot.df, confidence)
             m     == MatchedLine(lines, targets, normalize, threshold)
         IN  IF m = 0 THEN None ELSE ReturnedBox(lines[m], shot.used_region)

\* find_text_on_screen: variants and targets of the text argument.
VariantsOf(text) == IF text.kind = "str" THEN <<text.val>> ELSE text.val

TargetsOf(text, normalize) ==
    [i \in 1..Len(VariantsOf(text)) |->
        IF normalize THEN normalize_tr(VariantsOf(text)[i])
        ELSE Casefold(VariantsOf(text)[i])]

(***************************************************************************)
(* OCREngine.find_word_pair, after the capture                             *)
(***************************************************************************)
\* str.upper() of one character.
UpperChar(c) ==
    IF IndexIn(c, LowerAscii) # 0 THEN <<UpperAscii[IndexIn(c, LowerAscii)]>>
    ELSE CASE c = "i_nodot" -> <<"I">>
           [] c = "s_ced"   -> <<"S_ced">>
           [] c = "g_breve" -> <<"G_breve">>
           [] c = "c_ced"   -> <<"C_ced">>
           [] c = "o_uml"   -> <<"O_uml">>
           [] c = "u_uml"   -> <<"U_uml">>
           [] c = "a_tilde" -> <<"A_tilde">>
           [] c = "ae"      -> <<"AE">>
           [] c = "sharp_s" -> <<"S", "S">>
           [] OTHER         -> <<c>>
Upper(s) == Flatten([i \in 1..Len(s) |-> UpperChar(s[i])])

FINANS == <<"f", "i", "n", "a", "n", "s">>
IZLE == <<"i", "z", "l", "e">>

\* left_targets / right_targets: the normalised spellings of a word.  The
\* fixed spelling lists of "finans" and "izle" are written out in the code.
left_targets(left_word) ==
    IF normalize_tr(left_word) = FINANS
    THEN {normalize_tr(w) : w \in { <<"F","i","n","a","n","s">>, FINANS,
                                    <<"F","I","N","A","N","S">> }}
    ELSE {normalize_tr(w) : w \in {left_word, Lower(left_word), Upper(left_word)}}

right_targets(right_word) ==
    IF normalize_tr(right_word) = IZLE
    THEN {normalize_tr(w) : w \in { <<"I_dot","z","l","e">>, IZLE,
                                    <<"I","Z","L","E">>, <<"I","z","l","e">> }}
    ELSE {normalize_tr(w) : w \in {right_word, Lower(right_word), Upper(right_word)}}

\* sort_values(["line_num", "left"]): ascending, ties in input order.
PairBefore(r1, r2) ==
    \/ r1.key[4] < r2.key[4]
    \/ (r1.key[4] = r2.key[4] /\ r1.left <= r2.left)

RECURSIVE InsertByLineLeft(_, _)
InsertByLineLeft(sorted, row) ==
    IF sorted = <<>> THEN <<row>>
    ELSE IF PairBefore(sorted[Len(sorted)], row) THEN Append(sorted, row)
    ELSE Append(InsertByLineLeft(SubSeq(sorted, 1, Len(sorted) - 1), row),
                sorted[Len(sorted)])

RECURSIVE SortByLineLeft(_)
SortByLineLeft(rows) ==
    IF rows = <<>> THEN <<>>
    ELSE InsertByLineLeft(SortByLineLeft(SubSeq(rows, 1, Len(rows) - 1)), rows[Len(rows)])

\* left_tokens: the rows spelling the left word.
left_tokens(rows, left_word) ==
    SortByLineLeft(SelectSeq(rows, LAMBDA r : normalize_tr(r.text) \in left_targets(left_word)))

\* Faulty variant of right_candidates: a gap equal to max_gap is accepted.
right_candidates_GapInclusive(rows, L, right_word, max_gap) ==
    SelectSeq(rows, LAMBDA r :
        /\ r.key[4] = L.key[4]
        /\ r.left > L.left
        /\ r.left - L.left <= max_gap
        /\ normalize_tr(r.text) \in right_targets(right_word))

\* right_candidates for the left token L, in the order of the data frame.
right_candidates(rows, L, right_word, max_gap) ==
    SelectSeq(rows, LAMBDA r :
        /\ r.key[4] = L.key[4]
        /\ r.left > L.left
        /\ r.left - L.left < max_gap
        /\ normalize_tr(r.text) \in right_targets(right_word))

\* scale_x / scale_y: processed size over region size, 1 for a size of 0.
ScaleOf(img_size, region_size) ==
    IF region_size # 0 THEN img_size \div region_size ELSE 1

\* The box returned for the pair (L, R): the union of the two boxes divided
\* by the scale, cut to integers by int(), moved by the region origin.
PairBox(L, R, img, used_region, window_rect) ==
    LET reg     == IF used_region # None THEN used_region ELSE window_rect
        scale_x == ScaleOf(img[1], reg[3])
        scale_y == ScaleOf(img[2], reg[4])
        x0      == Min2(L.left, R.left)
        y0      == Min2(L.top, R.top)
        x1      == Max2(L.left + L.width, R.left + R.width)
        y1      == Max2(L.top + L.height, R.top + R.height)
    IN  << (x0 \div scale_x) + reg[1], (y0 \div scale_y) + reg[2],
           (x1 - x0) \div scale_x, (y1 - y0) \div scale_y >>

\* The return value of find_word_pair for a capture.
FindWordPair(shot, window_rect, left_word, right_word, max_gap, conf_min) ==
    IF shot.img = None \/ shot.df = <<>> THEN None
    ELSE LET rows == SelectSeq(shot.df, LAMBDA r : r.conf >= conf_min)
             ls   == left_tokens(rows, left_word)
             hits == {i \in 1..Len(ls) :
                        right_candidates(rows, ls[i], right_word, max_gap) # <<>>}
         IN  IF hits = {} THEN None
             ELSE LET L == ls[SetMin(hits)]
                      R == right_candidates(rows, L, right_word, max_gap)[1]
                  IN  PairBox(L, R, shot.img, shot.used_region, window_rect)

(***************************************************************************)
(* Inputs of the functions applied on their own                            *)
(***************************************************************************)
\* Longest string handed to normalize_tr.
MaxStr == 3
\* Longest token list of one capture.
MaxLineTokens == 3

NormChars == {"I_dot", "i", "z", "AE", "sect", " ", "endash"}
StringsUpTo(n) == UNION {[1..k -> NormChars] : k \in 0..n}

IZLE_DOTTED_UPPER == <<"I_dot", "Z", "L", "E">>
FINANS_DOTTED_UPPER == <<"F", "I_dot", "N", "A", "N", "S">>
Finans == <<"F", "i", "n", "a", "n", "s">>
Izle_dotted == <<"I_dot", "z", "l", "e">>

NormInputs == StringsUpTo(MaxStr) \cup {IZLE_DOTTED_UPPER, IZLE, FINANS_DOTTED_UPPER, FINANS}

\* A recognised word with its own box size.
Word(t, l, tp, w, h, c) == [text |-> t, left |-> l, top |-> tp, width |-> w,
                            height |-> h, conf |-> c]

\* Words for the line aggregation: tops 0, 2, 10 and 11, a word of low
\* confidence, a blank word and a word whose box has no width.
LineTokens ==
    { Word(<<"a">>, 0, 0, 6, 6, 90),
      Word(<<"a">>, 0, 2, 6, 6, 90),
      Word(<<"b">>, 12, 0, 6, 6, 90),
      Word(<<"b">>, 12, 10, 6, 6, 90),
      Word(<<"b">>, 18, 11, 6, 6, 90),
      Word(<<"a">>, 0, 0, 6, 6, 50),
      Word(<<" ">>, 6, 0, 6, 6, 90),
      Word(<<"b">>, 24, 0, 0, 6, 90) }

\* Words for the pair search, in pixels of the processed image.
PairTokens ==
    { Word(Finans, 0, 0, 60, 20, 92),
      Word(Izle_dotted, 100, 2, 40, 20, 88),
      Word(IZLE, 70, 2, 20, 20, 90),
      Word(FINANS, 60, 0, 30, 20, 90),
      Word(FINANS, 30, 0, 20, 20, 20),
      Word(<<"a">>, 150, 0, 6, 20, 90) }

ListsOf(S, n) == UNION {[1..k -> S] : k \in 0..n}

\* pytesseract reports the words of its one text line in reading order.
ReadingOrder(toks) == \A i \in 1..(Len(toks) - 1) : toks[i].left < toks[i + 1].left

\* What a backend can hand back for a capture: EasyOCR in any order,
\* pytesseract in reading order.
BackendLists(S, easy) ==
    {ts \in ListsOf(S, MaxLineTokens) : easy \/ ReadingOrder(ts)}

NoJob == [fn |-> "none", s |-> <<>>, toks |-> <<>>, easy |-> FALSE, region |-> None,
          text |-> [kind |-> "str", val |-> <<>>], confidence |-> OCR_CONFIDENCE,
          normalize |-> TRUE, threshold |-> 80, left_word |-> <<>>,
          right_word |-> <<>>, max_gap |-> 0, conf_min |-> 0]

NormalizeJobs == {[NoJob EXCEPT !.fn = "normalize_tr", !.s = x] : x \in NormInputs}

\* The spec's scenario: Finans and Izle with a dotted capital I on one line.
ScenarioTokens == << Word(Finans, 0, 0, 60, 20, 92), Word(Izle_dotted, 70, 2, 40, 20, 88) >>
ScenarioText ==
    [kind |-> "list",
     val |-> << Finans \o <<" ", "-", " ">> \o Izle_dotted,
                Finans \o <<" ">> \o Izle_dotted >>]

\* A capture of 120 x 30 processed pixels at the screen origin holds them.
ScenarioRegion == <<0, 0, 40, 10>>

FindTextJobs ==
    UNION {{[NoJob EXCEPT !.fn = "find_text", !.toks = ts, !.easy = e,
                          !.text = [kind |-> "str", val |-> <<"b">>]] :
               ts \in BackendLists(LineTokens, e)} : e \in BOOLEAN}
    \cup {[NoJob EXCEPT !.fn = "find_text", !.toks = ScenarioTokens, !.easy = e,
                        !.region = ScenarioRegion, !.text = ScenarioText, !.normalize = n, !.threshold = t] :
            e \in BOOLEAN, n \in BOOLEAN, t \in FuzzyThresholds}

PairRegion == <<10, 20, 60, 20>>
PairGaps == {50, 100, 101, 300}

\* find_word_pair runs with the engine flags of __init__: pytesseract.
FindWordPairJobs ==
    {[NoJob EXCEPT !.fn = "find_word_pair", !.toks = ts, !.region = PairRegion,
                   !.left_word = FINANS, !.right_word = IZLE, !.max_gap = g,
                   !.conf_min = 30] :
        g \in PairGaps, ts \in BackendLists(PairTokens, FALSE)}

Jobs == NormalizeJobs \cup FindTextJobs \cup FindWordPairJobs

NoOut == [done |-> FALSE, str |-> <<>>, str2 |-> <<>>, df |-> <<>>, lines |-> <<>>,
          box |-> None]

\* The logger names of the modules that call get_logger(__name__).
LoggerNames == {"main", "ocr_engine", "image_matcher"}
\* Number of get_logger calls followed.
MaxLogCalls == 4

(***************************************************************************)
(* State                                                                   *)
(***************************************************************************)
VARIABLES
    use_easyocr,      \* OCREngine.use_easyocr
    reader,           \* OCREngine.reader: NoReader or "easyocr_reader"
    fuzzy_threshold,  \* the module-level OCR_FUZZY_THRESHOLD, as a percentage
    pc,               \* position of the thread inside the running call
    caller,           \* the public method running: "find", "wait", "pair" or "none"
    args,             \* its arguments
    targets,          \* find_text_on_screen: targets
    engine,           \* find_text_on_screen: index of the for loop in ENGINES
    saved,            \* _find_text_engine: <<orig_use_easyocr, orig_reader>>
    shot,             \* what _screenshot returned to the running frame
    found,            \* what _find_text_engine is about to return
    raised,           \* TRUE while an exception leaves _find_text_engine
    ret,              \* return value of the last find_text_on_screen
    result,           \* what the public method handed to its caller
    now,              \* time.time(), in units of 0.5 s
    end_time,         \* wait_for_text: end_time
    attempts,         \* history: the backend attempts of the running lookup
    captures,         \* history: number of _screenshot calls of the running call
    lookups,          \* history: lookups started by wait_for_text, with their start time
    sleeps,           \* history: number of time.sleep(0.5) calls of wait_for_text
    job,              \* a function of the module applied on its own: its input
    out,              \* ... and what it computed
    log_file_cleared, \* logger._log_file_cleared
    log_file,         \* LOG_FILE on disk: "absent" or "present"
    handlers,         \* logging.getLogger(name).handlers is non-empty, per name
    log_pc,           \* "ready", or "raised" after get_logger let an exception out
    log_events,       \* history: what the get_logger calls did to LOG_FILE
    t_pc,             \* concurrent find_text_on_screen calls: position of each thread
    t_engine,         \* ... index of each thread's for loop in ENGINES
    t_saved,          \* ... each thread's <<orig_use_easyocr, orig_reader>>
    t_captures,       \* history: the backend every capture ran, with its thread and attempt
    ready_pc,         \* _wait_for_preston_ready: position
    ready_now,        \* ... time.time(), in units of the 0.25 s poll
    ready_end_time,   \* ... end_time
    ok_streak,        \* ... ok_streak
    ready_iters,      \* history: what every iteration of the while loop saw
    ready_result,     \* ... the value returned: "none", "true" or "false"
    e_pc,             \* process_entries: position
    e_entries,        \* ... len(entries)
    e_entry,          \* ... index of the entry of the outer for loop
    e_attempt,        \* ... attempt of the inner for loop
    e_log,            \* history: the attempts made, with their outcome
    a_pc,             \* start_automation / run_automation: position
    a_caller,         \* ... which of the two is running
    a_entries,        \* ... len(excel_data)
    a_entry,          \* ... index of the entry of the for loop
    running,          \* PrestonRPA.running
    a_log             \* history: the entries execute_workflow was called for

engineStateVars == << use_easyocr, reader, fuzzy_threshold, pc, caller, args, targets,
                      engine, saved, shot, found, raised, ret, result, now, end_time,
                      attempts, captures, lookups, sleeps >>
pureVars == << job, out >>
logVars == << log_file_cleared, log_file, handlers, log_pc, log_events >>
threadVars == << t_pc, t_engine, t_saved, t_captures >>
readyVars == << ready_pc, ready_now, ready_end_time, ok_streak, ready_iters, ready_result >>
entryVars == << e_pc, e_entries, e_entry, e_attempt, e_log >>
autoVars == << a_pc, a_caller, a_entries, a_entry, running, a_log >>
workflowVars == << threadVars, readyVars, entryVars, autoVars >>
\* The engine state apart from the two backend flags.
callVars == << fuzzy_threshold, pc, caller, args, targets, engine, saved, shot, found,
               raised, ret, result, now, end_time, attempts, captures, lookups, sleeps >>

vars == << engineStateVars, pureVars, logVars, workflowVars >>

engineVars == << use_easyocr, reader >>
frameVars == << saved, shot, found, raised >>
waitVars == << end_time, lookups, sleeps >>

NoArgs == [text |-> [kind |-> "str", val |-> <<>>], region |-> None, region_pad |-> 0,
           confidence |-> OCR_CONFIDENCE, normalize |-> TRUE, timeout |-> 0,
           left_word |-> <<>>, right_word |-> <<>>, max_gap |-> 0, conf_min |-> 0]

\* Arguments of a direct find_text_on_screen call.
FindArgs ==
    {[NoArgs EXCEPT !.text = t, !.region = r, !.region_pad = p, !.normalize = n] :
        t \in TextArgs, r \in Regions, p \in RegionPads, n \in BOOLEAN}

\* Arguments of a wait_for_text call (normalize is not a parameter of it).
WaitArgs ==
    {[NoArgs EXCEPT !.text = t, !.timeout = d] :
        t \in {[kind |-> "str", val |-> <<"a", "b">>],
               [kind |-> "list", val |-> << <<"b", "b">>, <<"a", "b">> >>]},
        d \in 0..MaxTimeout}

\* Arguments of a find_word_pair call; window_rect is args.region.
PairArgs ==
    {[NoArgs EXCEPT !.region = r, !.region_pad = p, !.left_word = <<"a">>,
                    !.right_word = <<"A", "b">>, !.max_gap = g, !.conf_min = 30] :
        r \in Regions \ {None}, p \in RegionPads, g \in {0, 12, 13}}

\* What a public method hands to its caller: nothing yet, a box, None, a
\* bool, or an exception.
Unset == [kind |-> "unset", box |-> None, flag |-> FALSE]
Returned(v) == [kind |-> IF v = None THEN "none" ELSE "box", box |-> v, flag |-> FALSE]
ReturnedBool(b) == [kind |-> "bool", box |-> None, flag |-> b]
Raised == [kind |-> "raised", box |-> None, flag |-> FALSE]

\* The frame of a call that has not captured anything.
NoShot == ScreenshotFailed

\* Python truth value of a returned box: a 4-tuple is true, None is false.
Truthy(v) == v # None

\* The logging module and LOG_FILE before the first get_logger call of a
\* process that found no log file.
LogIdle ==
    /\ log_file_cleared = FALSE
    /\ log_file = "absent"
    /\ handlers = [n \in LoggerNames |-> FALSE]
    /\ log_pc = "ready"
    /\ log_events = <<>>

\* The threads, loops and workflows that are not running.
Threads == {1, 2}

WorkflowIdle ==
    /\ t_pc = [t \in Threads |-> "idle"]
    /\ t_engine = [t \in Threads |-> 1]
    /\ t_saved = [t \in Threads |-> << FALSE, NoReader >>]
    /\ t_captures = <<>>
    /\ ready_pc = "idle"
    /\ ready_now = 0
    /\ ready_end_time = 0
    /\ ok_streak = 0
    /\ ready_iters = <<>>
    /\ ready_result = "none"
    /\ e_pc = "idle"
    /\ e_entries = 0
    /\ e_entry = 1
    /\ e_attempt = 0
    /\ e_log = <<>>
    /\ a_pc = "idle"
    /\ a_caller = "none"
    /\ a_entries = 0
    /\ a_entry = 1
    /\ running = TRUE
    /\ a_log = <<>>

\* OCREngine.__init__ and the module-level names.
EngineIdle ==
    /\ use_easyocr = FALSE
    /\ reader = NoReader
    /\ fuzzy_threshold \in FuzzyThresholds
    /\ pc = "idle"
    /\ caller = "none"
    /\ args = NoArgs
    /\ targets = <<>>
    /\ engine = 1
    /\ saved = None
    /\ shot = NoShot
    /\ found = None
    /\ raised = FALSE
    /\ ret = None
    /\ result = Unset
    /\ now = 0
    /\ end_time = 0
    /\ attempts = <<>>
    /\ captures = 0
    /\ lookups = <<>>
    /\ sleeps = 0

Init ==
    /\ EngineIdle
    /\ job = NoJob
    /\ out = NoOut
    /\ LogIdle
    /\ WorkflowIdle

(***************************************************************************)
(* find_text_on_screen                                                     *)
(***************************************************************************)
\* Lines 442-443: variants and targets are built, the for loop starts.
FindStart ==
    /\ pc = "idle"
    /\ \E a \in FindArgs :
        /\ args' = a
        /\ targets' = TargetsOf(a.text, a.normalize)
    /\ caller' = "find"
    /\ engine' = 1
    /\ attempts' = <<>>
    /\ captures' = 0
    /\ ret' = None
    /\ result' = Unset
    /\ pc' = "loop"
    /\ UNCHANGED << engineVars, fuzzy_threshold, pureVars, logVars, workflowVars, frameVars, now, waitVars >>

\* _find_text_engine, lines 374-377: the engine flags are saved and set for
\* the backend of this iteration.
EngineEnter ==
    /\ pc = "loop"
    /\ engine <= Len(ENGINES)
    /\ saved' = << use_easyocr, reader >>
    /\ use_easyocr' = ENGINES[engine][1]
    /\ reader' = IF ENGINES[engine][1] THEN "easyocr_reader" ELSE NoReader
    /\ pc' = "enter"
    /\ UNCHANGED << fuzzy_threshold, pureVars, logVars, workflowVars, caller, args, targets, engine, shot, found, raised,
                    ret, result, now, waitVars, attempts, captures >>

\* Faulty variant of EngineScreenshot: no finally clause, the flags of the
\* attempt stay set.
EngineScreenshot_NoRestore ==
    /\ pc = "enter"
    /\ \E o \in BackendOutcomes :
        /\ \A i \in 1..Len(o.toks) :
              FitsIn(o.toks[i], ProcessedSize(args.region, args.region_pad))
        /\ shot' = Screenshot(args.region, args.region_pad,
                              use_easyocr /\ reader # NoReader, o)
    /\ UNCHANGED engineVars
    /\ saved' = None
    /\ captures' = captures + 1
    /\ \E d \in 0..1 : now' = IF caller = "wait" THEN Min2(MaxClock, now + d) ELSE now
    /\ pc' = "shot"
    /\ UNCHANGED << fuzzy_threshold, pureVars, logVars, workflowVars, caller, args, targets, engine, found, raised,
                    ret, result, waitVars, attempts >>

\* Lines 378-384: _screenshot runs the backend the engine flags select, then
\* the finally clause puts the saved flags back.  The call takes time.
EngineScreenshot ==
    /\ pc = "enter"
    /\ \E o \in BackendOutcomes :
        /\ \A i \in 1..Len(o.toks) :
              FitsIn(o.toks[i], ProcessedSize(args.region, args.region_pad))
        /\ shot' = Screenshot(args.region, args.region_pad,
                              use_easyocr /\ reader # NoReader, o)
    /\ use_easyocr' = saved[1]
    /\ reader' = saved[2]
    /\ saved' = None
    /\ captures' = captures + 1
    /\ \E d \in 0..1 : now' = IF caller = "wait" THEN Min2(MaxClock, now + d) ELSE now
    /\ pc' = "shot"
    /\ UNCHANGED << fuzzy_threshold, pureVars, logVars, workflowVars, caller, args, targets, engine, found, raised,
                    ret, result, waitVars, attempts >>

\* Lines 385-429: the rows are filtered and grouped into lines, the lines
\* are matched; the function is about to return a box or None, or raises.
EngineMatch ==
    /\ pc = "shot"
    /\ raised' = FindTextEngineRaises(shot)
    /\ found' = IF FindTextEngineRaises(shot) THEN None
                ELSE FindTextEngine(shot, targets, args.confidence, args.normalize,
                                    fuzzy_threshold)
    /\ pc' = "ret"
    /\ UNCHANGED << engineVars, fuzzy_threshold, pureVars, logVars, workflowVars, caller, args, targets, engine, saved,
                    shot, ret, result, now, waitVars, attempts, captures >>

\* The entry of the history for the attempt that is returning.
AttemptRecord ==
    [engine |-> ENGINES[engine][2],
     captured |-> shot.img # None,
     rows |-> Len(shot.df),
     raised |-> raised,
     found |-> found]

\* Faulty variant of EngineReturn: a true bbox is remembered but the loop still goes
\* on to the next backend.
EngineReturn_KeepsGoing ==
    /\ pc = "ret"
    /\ ret' = IF raised \/ found = None THEN ret ELSE found
    /\ pc' = "loop"
    /\ engine' = engine + 1
    /\ attempts' = Append(attempts, AttemptRecord)
    /\ shot' = NoShot
    /\ found' = None
    /\ raised' = FALSE
    /\ UNCHANGED << engineVars, fuzzy_threshold, pureVars, logVars, workflowVars, caller, args, targets, saved, result,
                    now, waitVars, captures >>

\* Faulty variant of EngineReturn: an attempt that captured nothing or raised ends
\* the lookup with None instead of moving on to the next backend.
EngineReturn_FailureEndsLookup ==
    /\ pc = "ret"
    /\ LET bbox == IF raised THEN None ELSE found
           failed == raised \/ shot.img = None \/ shot.df = <<>>
       IN  IF failed \/ bbox # None
           THEN /\ ret' = bbox
                /\ pc' = "returned"
                /\ engine' = engine
           ELSE /\ ret' = ret
                /\ pc' = "loop"
                /\ engine' = engine + 1
    /\ attempts' = Append(attempts, AttemptRecord)
    /\ shot' = NoShot
    /\ found' = None
    /\ raised' = FALSE
    /\ UNCHANGED << engineVars, fuzzy_threshold, pureVars, logVars, workflowVars, caller, args, targets, saved, result,
                    now, waitVars, captures >>

\* Lines 446-462: back in find_text_on_screen.  An exception is logged and
\* bbox is None; a true bbox is returned, otherwise the loop goes on.
EngineReturn ==
    /\ pc = "ret"
    /\ LET bbox == IF raised THEN None ELSE found
       IN  IF Truthy(bbox)
           THEN /\ ret' = bbox
                /\ pc' = "returned"
                /\ engine' = engine
           ELSE /\ ret' = ret
                /\ pc' = "loop"
                /\ engine' = engine + 1
    /\ attempts' = Append(attempts, AttemptRecord)
    /\ shot' = NoShot
    /\ found' = None
    /\ raised' = FALSE
    /\ UNCHANGED << engineVars, fuzzy_threshold, pureVars, logVars, workflowVars, caller, args, targets, saved, result,
                    now, waitVars, captures >>

\* Line 462: the for loop is over, return None.
FindExhausted ==
    /\ pc = "loop"
    /\ engine > Len(ENGINES)
    /\ ret' = None
    /\ pc' = "returned"
    /\ UNCHANGED << engineVars, fuzzy_threshold, pureVars, logVars, workflowVars, caller, args, targets, engine, frameVars,
                    result, now, waitVars, attempts, captures >>

\* A direct call hands the return value to its caller.
FindReturn ==
    /\ pc = "returned"
    /\ caller = "find"
    /\ result' = Returned(ret)
    /\ pc' = "done"
    /\ UNCHANGED << engineVars, fuzzy_threshold, pureVars, logVars, workflowVars, caller, args, targets, engine, frameVars,
                    ret, now, waitVars, attempts, captures >>

(***************************************************************************)
(* wait_for_text                                                           *)
(***************************************************************************)
\* Line 497: end_time = time.time() + timeout.
WaitStart ==
    /\ pc = "idle"
    /\ \E a \in WaitArgs :
        /\ args' = a
        /\ end_time' = now + a.timeout
    /\ caller' = "wait"
    /\ lookups' = <<>>
    /\ sleeps' = 0
    /\ captures' = 0
    /\ attempts' = <<>>
    /\ result' = Unset
    /\ pc' = "w_test"
    /\ UNCHANGED << engineVars, fuzzy_threshold, pureVars, logVars, workflowVars, targets, engine, frameVars, ret, now >>

\* Faulty variant of WaitTest: the while test is time.time() <= end_time.
WaitTest_Inclusive ==
    /\ pc = "w_test"
    /\ IF now <= end_time
       THEN /\ targets' = TargetsOf(args.text, args.normalize)
            /\ engine' = 1
            /\ attempts' = <<>>
            /\ ret' = None
            /\ lookups' = Append(lookups, now)
            /\ pc' = "loop"
            /\ result' = result
       ELSE /\ result' = ReturnedBool(FALSE)
            /\ pc' = "done"
            /\ UNCHANGED << targets, engine, attempts, ret, lookups >>
    /\ UNCHANGED << engineVars, fuzzy_threshold, pureVars, logVars, workflowVars, caller, args, frameVars, now, end_time,
                    sleeps, captures >>

\* Line 498, the while test: before the deadline the body calls
\* find_text_on_screen (lines 499-501); at or after it the loop is left, the
\* timeout is logged and False is returned (lines 504-505).
WaitTest ==
    /\ pc = "w_test"
    /\ IF now < end_time
       THEN /\ targets' = TargetsOf(args.text, args.normalize)
            /\ engine' = 1
            /\ attempts' = <<>>
            /\ ret' = None
            /\ lookups' = Append(lookups, now)
            /\ pc' = "loop"
            /\ result' = result
       ELSE /\ result' = ReturnedBool(FALSE)
            /\ pc' = "done"
            /\ UNCHANGED << targets, engine, attempts, ret, lookups >>
    /\ UNCHANGED << engineVars, fuzzy_threshold, pureVars, logVars, workflowVars, caller, args, frameVars, now, end_time,
                    sleeps, captures >>

\* Lines 499-503: a true lookup result returns True, otherwise the loop
\* body goes on to time.sleep(0.5).
WaitAfterLookup ==
    /\ pc = "returned"
    /\ caller = "wait"
    /\ IF Truthy(ret)
       THEN /\ result' = ReturnedBool(TRUE)
            /\ pc' = "done"
       ELSE /\ result' = result
            /\ pc' = "w_sleep"
    /\ UNCHANGED << engineVars, fuzzy_threshold, pureVars, logVars, workflowVars, caller, args, targets, engine, frameVars,
                    ret, now, waitVars, attempts, captures >>

\* Line 503: time.sleep(0.5) lasts one backoff interval or longer.
WaitSleep ==
    /\ pc = "w_sleep"
    /\ \E d \in 1..2 : now' = Min2(MaxClock, now + d)
    /\ sleeps' = sleeps + 1
    /\ pc' = "w_test"
    /\ UNCHANGED << engineVars, fuzzy_threshold, pureVars, logVars, workflowVars, caller, args, targets, engine, frameVars,
                    ret, result, end_time, lookups, attempts, captures >>

(***************************************************************************)
(* find_word_pair                                                          *)
(***************************************************************************)
PairStart ==
    /\ pc = "idle"
    /\ \E a \in PairArgs : args' = a
    /\ caller' = "pair"
    /\ captures' = 0
    /\ attempts' = <<>>
    /\ result' = Unset
    /\ pc' = "p_enter"
    /\ UNCHANGED << engineVars, fuzzy_threshold, pureVars, logVars, workflowVars, targets, engine, frameVars, ret, now,
                    waitVars >>

\* Lines 259-263: _screenshot with the engine flags as they stand.
PairScreenshot ==
    /\ pc = "p_enter"
    /\ \E o \in BackendOutcomes :
        /\ \A i \in 1..Len(o.toks) :
              FitsIn(o.toks[i], ProcessedSize(args.region, args.region_pad))
        /\ shot' = Screenshot(args.region, args.region_pad,
                              use_easyocr /\ reader # NoReader, o)
    /\ captures' = captures + 1
    /\ pc' = "p_shot"
    /\ UNCHANGED << engineVars, fuzzy_threshold, pureVars, logVars, workflowVars, caller, args, targets, engine, saved,
                    found, raised, ret, result, now, waitVars, attempts >>

\* Lines 264-335: None without rows; normalising a text column that is not
\* str raises; otherwise the first qualifying pair, or None.
PairMatch ==
    /\ pc = "p_shot"
    /\ result' = IF shot.img = None \/ shot.df = <<>> THEN Returned(None)
                 ELSE IF shot.numeric THEN Raised
                 ELSE Returned(FindWordPair(shot, args.region, args.left_word,
                                            args.right_word, args.max_gap, args.conf_min))
    /\ pc' = "done"
    /\ UNCHANGED << engineVars, fuzzy_threshold, pureVars, logVars, workflowVars, caller, args, targets, engine, frameVars,
                    ret, now, waitVars, attempts, captures >>

\* The caller has the result; the engine is free for the next call.
CallReturn ==
    /\ pc = "done"
    /\ pc' = "idle"
    /\ caller' = "none"
    /\ args' = NoArgs
    /\ targets' = <<>>
    /\ engine' = 1
    /\ saved' = None
    /\ shot' = NoShot
    /\ found' = None
    /\ raised' = FALSE
    /\ ret' = None
    /\ result' = Unset
    /\ now' = 0
    /\ end_time' = 0
    /\ attempts' = <<>>
    /\ captures' = 0
    /\ lookups' = <<>>
    /\ sleeps' = 0
    /\ UNCHANGED << engineVars, fuzzy_threshold, pureVars, logVars, workflowVars >>

Next ==
    \/ FindStart
    \/ EngineEnter
    \/ EngineScreenshot
    \/ EngineMatch
    \/ EngineReturn
    \/ FindExhausted
    \/ FindReturn
    \/ WaitStart
    \/ WaitTest
    \/ WaitAfterLookup
    \/ WaitSleep
    \/ PairStart
    \/ PairScreenshot
    \/ PairMatch
    \/ CallReturn

Spec == Init /\ [][Next]_vars

(***************************************************************************)
(* The functions of the module applied on their own                        *)
(***************************************************************************)
PureInit ==
    /\ EngineIdle
    /\ job \in Jobs
    /\ out = NoOut
    /\ LogIdle
    /\ WorkflowIdle

\* normalize_tr(s), and normalize_tr of its result.
ApplyNormalize ==
    /\ job.fn = "normalize_tr"
    /\ ~out.done
    /\ out' = [NoOut EXCEPT !.done = TRUE,
                            !.str = normalize_tr(job.s),
                            !.str2 = normalize_tr(normalize_tr(job.s))]
    /\ UNCHANGED << engineStateVars, job, logVars, workflowVars >>

\* The capture the job's backend run yields.
CaptureOf(j) == Screenshot(j.region, 0, j.easy, [kind |-> "tokens", toks |-> j.toks])

\* _find_text_engine on one capture: the data frame of _screenshot, the
\* lines dict, the returned box.
ApplyFindText ==
    /\ job.fn = "find_text"
    /\ ~out.done
    /\ out' = [NoOut EXCEPT !.done = TRUE,
                            !.df = CaptureOf(job).df,
                            !.lines = Lines(CaptureOf(job).df, job.confidence),
                            !.box = FindTextEngine(CaptureOf(job),
                                                   TargetsOf(job.text, job.normalize),
                                                   job.confidence, job.normalize,
                                                   job.threshold)]
    /\ UNCHANGED << engineStateVars, job, logVars, workflowVars >>

\* find_word_pair on one capture.
ApplyFindWordPair ==
    /\ job.fn = "find_word_pair"
    /\ ~out.done
    /\ out' = [NoOut EXCEPT !.done = TRUE,
                            !.df = CaptureOf(job).df,
                            !.box = FindWordPair(CaptureOf(job), job.region,
                                                 job.left_word, job.right_word,
                                                 job.max_gap, job.conf_min)]
    /\ UNCHANGED << engineStateVars, job, logVars, workflowVars >>

PureNext ==
    \/ ApplyNormalize
    \/ ApplyFindText
    \/ ApplyFindWordPair

PureSpec == PureInit /\ [][PureNext]_vars

(***************************************************************************)
(* logger.get_logger                                                       *)
(***************************************************************************)
\* A process starts with or without a log file left by an earlier run.
LogInit ==
    /\ EngineIdle
    /\ job = NoJob
    /\ out = NoOut
    /\ log_file_cleared = FALSE
    /\ log_file \in {"absent", "present"}
    /\ handlers = [n \in LoggerNames |-> FALSE]
    /\ log_pc = "ready"
    /\ log_events = <<>>
    /\ WorkflowIdle

\* LOG_FILE is held open by the RotatingFileHandler of some logger.
LogFileOpen == \E n \in LoggerNames : handlers[n]

LogEvent(name, unlinked, failed, attached) ==
    [name |-> name, unlinked |-> unlinked, failed |-> failed, attached |-> attached,
     open |-> LogFileOpen]

\* Lines 25-42 after the clearing step: a logger that has handlers is
\* returned as it is; otherwise RotatingFileHandler opens (and creates)
\* LOG_FILE and is attached.
GetLoggerAttach(name, unlinked) ==
    /\ log_pc' = "ready"
    /\ IF handlers[name]
       THEN /\ handlers' = handlers
            /\ log_file' = IF unlinked THEN "absent" ELSE log_file
            /\ log_events' = Append(log_events, LogEvent(name, unlinked, FALSE, FALSE))
       ELSE /\ handlers' = [handlers EXCEPT ![name] = TRUE]
            /\ log_file' = "present"
            /\ log_events' = Append(log_events, LogEvent(name, unlinked, FALSE, TRUE))

\* get_logger(name).  Lines 21-23: an existing LOG_FILE is unlinked while
\* _log_file_cleared is False.  Unlinking a file a handler holds open
\* succeeds on POSIX and raises PermissionError on Windows.
get_logger(name) ==
    /\ log_pc = "ready"
    /\ Len(log_events) < MaxLogCalls
    /\ IF ~log_file_cleared /\ log_file = "present"
       THEN \/ /\ log_file_cleared' = TRUE
               /\ GetLoggerAttach(name, TRUE)
            \/ /\ LogFileOpen
               /\ log_pc' = "raised"
               /\ log_events' = Append(log_events, LogEvent(name, FALSE, TRUE, FALSE))
               /\ UNCHANGED << log_file_cleared, log_file, handlers >>
       ELSE /\ log_file_cleared' = log_file_cleared
            /\ GetLoggerAttach(name, FALSE)
    /\ UNCHANGED << engineStateVars, pureVars, workflowVars >>

LogNext == \E name \in LoggerNames : get_logger(name)

LogSpec == LogInit /\ [][LogNext]_vars

(***************************************************************************)
(* Properties of find_text_on_screen and wait_for_text                     *)
(***************************************************************************)
\* The lookup in progress has handed its value back to its caller.
LookupOver == pc \in {"returned", "done", "w_sleep", "w_test"}

AttemptMatched(a) == ~a.raised /\ a.found # None

\* An attempt whose backend failed: the capture failed, the backend raised,
\* or it reported no rows.
AttemptFailed(a) == ~a.captured \/ a.raised \/ a.rows = 0

\* C1: once a backend attempt has produced a box, the lookup is over with
\* that box as its value and no later backend is started: a matched attempt
\* is the last attempt of its lookup, and an EasyOCR match leaves the lookup
\* with that single attempt.
C1_FirstMatchReturns ==
    \A i \in 1..Len(attempts) :
        AttemptMatched(attempts[i]) =>
            /\ i = Len(attempts)
            /\ pc \in {"returned", "done"}
            /\ ret = attempts[i].found
            /\ (attempts[i].engine = "easyocr" => Len(attempts) = 1)
            /\ (caller = "find" /\ pc = "done" => result = Returned(attempts[i].found))

\* An EasyOCR match was returned to the caller of find_text_on_screen.
C1_Witness ==
    /\ caller = "find"
    /\ pc = "done"
    /\ Len(attempts) = 1
    /\ attempts[1].engine = "easyocr"
    /\ AttemptMatched(attempts[1])
    /\ result.kind = "box"

\* C2: a failed backend attempt never reaches the caller as an exception and
\* never ends the lookup: the attempt counts as no match, every backend after
\* it is still tried, and the value of the lookup is what the last backend
\* found.
C2_BackendFailureNotFatal ==
    /\ (caller \in {"find", "wait"} => result.kind # "raised")
    /\ \A i \in 1..Len(attempts) :
          AttemptFailed(attempts[i]) =>
              /\ attempts[i].found = None
              /\ (pc = "loop" => engine = Len(attempts) + 1)
              /\ (LookupOver =>
                    /\ Len(attempts) = 2
                    /\ ret = attempts[2].found)

\* EasyOCR failed and the box Tesseract found afterwards was returned.
C2_Witness ==
    /\ caller = "find"
    /\ pc = "done"
    /\ Len(attempts) = 2
    /\ AttemptFailed(attempts[1])
    /\ AttemptMatched(attempts[2])
    /\ result = Returned(attempts[2].found)

\* C3: the attempts of a lookup are EasyOCR then Tesseract, each at most
\* once, every attempt but the last without a match; the attempt in progress
\* is the next in that order; a lookup that is over ended with the box of its
\* last attempt, or with None after both backends were tried without a match,
\* and never with an exception.
C3_EngineStateMachine ==
    /\ Len(attempts) <= 2
    /\ \A i \in 1..Len(attempts) :
          /\ attempts[i].engine = << "easyocr", "tesseract" >>[i]
          /\ (i < Len(attempts) => ~AttemptMatched(attempts[i]))
    /\ (pc \in {"enter", "shot", "ret"} =>
          /\ engine = Len(attempts) + 1
          /\ engine <= 2
          /\ ENGINES[engine][2] = << "easyocr", "tesseract" >>[engine])
    /\ (pc = "enter" => use_easyocr = (engine = 1))
    /\ (pc = "returned" =>
          \/ (ret # None /\ attempts # <<>> /\ AttemptMatched(attempts[Len(attempts)]))
          \/ (ret = None /\ Len(attempts) = 2 /\ ~AttemptMatched(attempts[2])))
    /\ (caller = "find" /\ pc = "done" => result = Returned(ret))
    /\ (caller \in {"find", "wait"} => result.kind # "raised")

\* Both backends were tried without a match and the call returned None.
C3_Witness ==
    /\ caller = "find"
    /\ pc = "done"
    /\ Len(attempts) = 2
    /\ attempts[1].captured /\ attempts[1].rows > 0
    /\ attempts[2].captured /\ attempts[2].rows > 0
    /\ result = Returned(None)

\* C4: wait_for_text starts a lookup only before its deadline; every lookup
\* that found nothing is followed by exactly one sleep before the next while
\* test; it returns True right after the first lookup that found a box and
\* False only at or after the deadline, after lookups that all found nothing.
C4_WaitBoundedByDeadline ==
    caller = "wait" =>
        /\ \A i \in 1..Len(lookups) : lookups[i] < end_time
        /\ (pc = "w_test" => sleeps = Len(lookups))
        /\ (pc \in {"loop", "enter", "shot", "ret", "returned", "w_sleep"} =>
              sleeps = Len(lookups) - 1)
        /\ (pc = "w_sleep" => ret = None)
        /\ (pc = "done" =>
              /\ result.kind = "bool"
              /\ (result.flag =>
                    /\ ret # None
                    /\ sleeps = Len(lookups) - 1)
              /\ (~result.flag =>
                    /\ now >= end_time
                    /\ ret = None
                    /\ sleeps = Len(lookups)))
        /\ captures <= 2 * Len(lookups)
        /\ captures >= Len(lookups) - (IF pc \in {"loop", "enter"} THEN 1 ELSE 0)

\* wait_for_text timed out after lookups and sleeps.
C4_Witness ==
    /\ caller = "wait"
    /\ pc = "done"
    /\ result = ReturnedBool(FALSE)
    /\ Len(lookups) >= 2
    /\ sleeps = Len(lookups)

(***************************************************************************)
(* Properties of the matcher and of the returned boxes                     *)
(***************************************************************************)
\* The lines dict of the attempt that is about to return.
AttemptLines == Lines(shot.df, args.confidence)

\* _find_text_engine is about to return from its matching loops.
MatchingDone == pc = "ret" /\ shot.img # None /\ ~raised

\* s occurs in t as a run of consecutive characters.
OccursIn(s, t) == \E k \in 0..(Len(t) - Len(s)) : SubSeq(t, k + 1, k + Len(s)) = s

\* 2 * M / (len(a) + len(b)) >= pct / 100 for the M of SequenceMatcher(None, a, b).
SimilarAtLeast(a, b, pct) == 200 * Matches(a, b) >= pct * (Len(a) + Len(b))

\* A request the error handling design calls invalid.
InvalidRequest ==
    \/ (caller \in {"find", "wait"} /\ VariantsOf(args.text) = <<>>)
    \/ (caller \in {"find", "wait", "pair"} /\ args.region # None
        /\ (args.region[3] <= 0 \/ args.region[4] <= 0))
    \/ (caller = "pair" /\ args.max_gap <= 0)

\* A request that is valid and names no empty variant: the cases of C10 and
\* C5 are set aside.
PlainRequest ==
    /\ ~InvalidRequest
    /\ \A i \in 1..Len(VariantsOf(args.text)) : VariantsOf(args.text)[i] # <<>>

\* C5 as claimed: a lookup whose only variant is the empty string returns
\* no match, whatever the backends report.
C5_EmptyVariantNeverMatches ==
    (/\ caller = "find"
     /\ pc = "done"
     /\ VariantsOf(args.text) = << <<>> >>)
    => result = Returned(None)

\* <<x, y, w, h>> lies inside the region grown by the padding on each side.
InsidePadded(box, region, region_pad) ==
    /\ box[1] >= region[1] - region_pad
    /\ box[1] + box[3] <= region[1] + region[3] + region_pad
    /\ box[2] >= region[2] - region_pad
    /\ box[2] + box[4] <= region[2] + region[4] + region_pad

\* C6 as claimed: with a region, every box returned by find_text_on_screen
\* or find_word_pair lies inside the region grown by the padding.
C6_BoxInsidePaddedRegion ==
    (/\ caller \in {"find", "pair"}
     /\ pc = "done"
     /\ PlainRequest
     /\ args.region # None
     /\ result.kind = "box")
    => InsidePadded(result.box, args.region, args.region_pad)

\* A box of the processed image divided by the scale of each axis and moved
\* by an origin.
MapToAbsolute(box, scale_x, scale_y, origin) ==
    << (box[1] \div scale_x) + origin[1], (box[2] \div scale_y) + origin[2],
       box[3] \div scale_x, box[4] \div scale_y >>

\* The origins a box of the capture may be moved by: the origin of the crop,
\* that of the region asked for, or the screen origin without a region.
Origins ==
    IF args.region = None THEN { <<0, 0>> }
    ELSE { << shot.used_region[1], shot.used_region[2] >>,
           << args.region[1], args.region[2] >> }

\* C7 as claimed: the box find_text_on_screen returns is the box of a line
\* of the processed image divided by the scale factor of each axis, then
\* moved by the region origin.
C7_ReturnedBoxIsMapped ==
    (MatchingDone /\ PlainRequest /\ found # None) =>
        \E i \in 1..Len(AttemptLines), o \in Origins :
            found = MapToAbsolute(LineBox(AttemptLines[i]),
                                  ScaleOf(shot.img[1], RawSize(args.region, args.region_pad)[1]),
                                  ScaleOf(shot.img[2], RawSize(args.region, args.region_pad)[2]),
                                  o)

AcceptedLines ==
    {i \in 1..Len(AttemptLines) :
        \E t \in 1..Len(targets) :
            LET n == line_norm(AttemptLines[i], args.normalize)
            IN  OccursIn(targets[t], n) \/ SimilarAtLeast(n, targets[t], fuzzy_threshold)}

\* C9: the lines are scanned top to bottom and the box returned is that of
\* the first accepted line, which lies above every other accepted line.
C9_FirstMatchPolicy ==
    MatchingDone =>
        /\ \A i, j \in 1..Len(AttemptLines) :
              i < j => LineBox(AttemptLines[i])[2] < LineBox(AttemptLines[j])[2]
        /\ (found # None =>
              \E i \in AcceptedLines :
                  /\ found = ReturnedBox(AttemptLines[i], shot.used_region)
                  /\ \A j \in AcceptedLines \ {i} :
                        /\ i < j
                        /\ LineBox(AttemptLines[i])[2] < LineBox(AttemptLines[j])[2])

\* The upper of two accepted lines was returned although only the lower one
\* spells a target exactly.
C9_Witness ==
    /\ MatchingDone
    /\ AcceptedLines = {1, 2}
    /\ found = ReturnedBox(AttemptLines[1], shot.used_region)
    /\ \A t \in 1..Len(targets) : line_norm(AttemptLines[1], args.normalize) # targets[t]
    /\ \E t \in 1..Len(targets) : line_norm(AttemptLines[2], args.normalize) = targets[t]

\* C10 as claimed: an invalid request is rejected before any capture: no
\* screenshot is taken for it and the call ends with an error.
C10_InvalidInputRejected ==
    InvalidRequest =>
        /\ captures = 0
        /\ (pc = "done" => result.kind = "raised")

(***************************************************************************)
(* Two find_text_on_screen calls running concurrently on one OCREngine,    *)
(* one step per statement that reads or writes the engine flags            *)
(***************************************************************************)
othersIdle == << callVars, pureVars, logVars, readyVars, entryVars, autoVars >>

\* A thread calls find_text_on_screen: the for loop starts.
ThreadStart(t) ==
    /\ t_pc[t] = "idle"
    /\ t_pc' = [t_pc EXCEPT ![t] = "loop"]
    /\ t_engine' = [t_engine EXCEPT ![t] = 1]
    /\ UNCHANGED << engineVars, t_saved, t_captures, othersIdle >>

\* Line 374: orig_use_easyocr = self.use_easyocr
ThreadSaveUse(t) ==
    /\ t_pc[t] = "loop"
    /\ t_engine[t] <= Len(ENGINES)
    /\ t_saved' = [t_saved EXCEPT ![t] = << use_easyocr, @[2] >>]
    /\ t_pc' = [t_pc EXCEPT ![t] = "save_reader"]
    /\ UNCHANGED << engineVars, t_engine, t_captures, othersIdle >>

\* Line 375: orig_reader = self.reader
ThreadSaveReader(t) ==
    /\ t_pc[t] = "save_reader"
    /\ t_saved' = [t_saved EXCEPT ![t] = << @[1], reader >>]
    /\ t_pc' = [t_pc EXCEPT ![t] = "set_use"]
    /\ UNCHANGED << engineVars, t_engine, t_captures, othersIdle >>

\* Line 376: self.use_easyocr = use_easyocr
ThreadSetUse(t) ==
    /\ t_pc[t] = "set_use"
    /\ use_easyocr' = ENGINES[t_engine[t]][1]
    /\ t_pc' = [t_pc EXCEPT ![t] = "set_reader"]
    /\ UNCHANGED << reader, t_engine, t_saved, t_captures, othersIdle >>

\* Line 377: self.reader = self.easyocr_reader if use_easyocr else None
ThreadSetReader(t) ==
    /\ t_pc[t] = "set_reader"
    /\ reader' = IF ENGINES[t_engine[t]][1] THEN "easyocr_reader" ELSE NoReader
    /\ t_pc' = [t_pc EXCEPT ![t] = "capture"]
    /\ UNCHANGED << use_easyocr, t_engine, t_saved, t_captures, othersIdle >>

\* _screenshot, line 143: the backend is chosen by the flags as they stand
\* when the capture reads them.
ThreadCapture(t) ==
    /\ t_pc[t] = "capture"
    /\ t_captures' = Append(t_captures,
            [thread |-> t,
             attempt |-> ENGINES[t_engine[t]][2],
             backend |-> IF use_easyocr /\ reader # NoReader THEN "easyocr"
                         ELSE "tesseract"])
    /\ t_pc' = [t_pc EXCEPT ![t] = "restore_use"]
    /\ UNCHANGED << engineVars, t_engine, t_saved, othersIdle >>

\* Line 383: self.use_easyocr = orig_use_easyocr
ThreadRestoreUse(t) ==
    /\ t_pc[t] = "restore_use"
    /\ use_easyocr' = t_saved[t][1]
    /\ t_pc' = [t_pc EXCEPT ![t] = "restore_reader"]
    /\ UNCHANGED << reader, t_engine, t_saved, t_captures, othersIdle >>

\* Line 384: self.reader = orig_reader
ThreadRestoreReader(t) ==
    /\ t_pc[t] = "restore_reader"
    /\ reader' = t_saved[t][2]
    /\ t_pc' = [t_pc EXCEPT ![t] = "match"]
    /\ UNCHANGED << use_easyocr, t_engine, t_saved, t_captures, othersIdle >>

\* Lines 385-462: the attempt found the text and the call returns, or it
\* did not and the for loop goes on.
ThreadMatch(t) ==
    /\ t_pc[t] = "match"
    /\ \E hit \in BOOLEAN :
        IF hit
        THEN /\ t_pc' = [t_pc EXCEPT ![t] = "done"]
             /\ t_engine' = t_engine
        ELSE /\ t_pc' = [t_pc EXCEPT ![t] = "loop"]
             /\ t_engine' = [t_engine EXCEPT ![t] = @ + 1]
    /\ UNCHANGED << engineVars, t_saved, t_captures, othersIdle >>

\* Line 462: no backend found the text.
ThreadExhausted(t) ==
    /\ t_pc[t] = "loop"
    /\ t_engine[t] > Len(ENGINES)
    /\ t_pc' = [t_pc EXCEPT ![t] = "done"]
    /\ UNCHANGED << engineVars, t_engine, t_saved, t_captures, othersIdle >>

ConcNext ==
    \E t \in Threads :
        \/ ThreadStart(t)
        \/ ThreadSaveUse(t)
        \/ ThreadSaveReader(t)
        \/ ThreadSetUse(t)
        \/ ThreadSetReader(t)
        \/ ThreadCapture(t)
        \/ ThreadRestoreUse(t)
        \/ ThreadRestoreReader(t)
        \/ ThreadMatch(t)
        \/ ThreadExhausted(t)

ConcSpec == Init /\ [][ConcNext]_vars

(***************************************************************************)
(* PrestonRPA._wait_for_preston_ready: one step per polling iteration.     *)
(* Time is counted in ticks; an iteration takes one or two of them.        *)
(***************************************************************************)
MaxReadyTimeout == 4
IterationTicks == {1, 2}

readyOthers == << engineStateVars, pureVars, logVars, threadVars, entryVars, autoVars >>

\* Lines 114-115: end_time = time.time() + timeout; ok_streak = 0
ReadyStart ==
    /\ ready_pc = "idle"
    /\ \E timeout \in 1..MaxReadyTimeout : ready_end_time' = ready_now + timeout
    /\ ok_streak' = 0
    /\ ready_pc' = "poll"
    /\ UNCHANGED << ready_now, ready_iters, ready_result, readyOthers >>

\* Lines 120-124: no Chrome window; sleep and continue with the streak as
\* it is.
ReadyNoChrome ==
    /\ ready_pc = "poll"
    /\ ready_now < ready_end_time
    /\ \E dt \in IterationTicks : ready_now' = ready_now + dt
    /\ ready_iters' = Append(ready_iters, "nochrome")
    /\ UNCHANGED << ready_pc, ready_end_time, ok_streak, ready_result, readyOthers >>

\* Lines 143-152: one of the two lookups found its text.
ReadyFound ==
    /\ ready_pc = "poll"
    /\ ready_now < ready_end_time
    /\ ready_iters' = Append(ready_iters, "found")
    /\ ok_streak' = ok_streak + 1
    /\ IF ok_streak + 1 >= 2
       THEN /\ ready_pc' = "done"
            /\ ready_result' = "true"
            /\ ready_now' = ready_now
       ELSE /\ \E dt \in IterationTicks : ready_now' = ready_now + dt
            /\ UNCHANGED << ready_pc, ready_result >>
    /\ UNCHANGED << ready_end_time, readyOthers >>

\* Lines 143-156: neither lookup found its text.
ReadyMiss ==
    /\ ready_pc = "poll"
    /\ ready_now < ready_end_time
    /\ ready_iters' = Append(ready_iters, "miss")
    /\ ok_streak' = 0
    /\ \E dt \in IterationTicks : ready_now' = ready_now + dt
    /\ UNCHANGED << ready_pc, ready_end_time, ready_result, readyOthers >>

\* Lines 158-179: the while condition fails; debug grabs, log, return False.
ReadyDeadline ==
    /\ ready_pc = "poll"
    /\ ready_now >= ready_end_time
    /\ ready_pc' = "done"
    /\ ready_result' = "false"
    /\ UNCHANGED << ready_now, ready_end_time, ok_streak, ready_iters, readyOthers >>

ReadyNext ==
    \/ ReadyStart
    \/ ReadyNoChrome
    \/ ReadyFound
    \/ ReadyMiss
    \/ ReadyDeadline

ReadySpec == Init /\ [][ReadyNext]_vars

(***************************************************************************)
(* rpa_pos_entry.process_entries: the retry loop over the entries          *)
(***************************************************************************)
MaxEntries == 3
Attempts == 3

entriesOthers == << engineStateVars, pureVars, logVars, threadVars, readyVars, autoVars >>

\* Line 144: the for loop starts over a list of entries.
EntriesStart ==
    /\ e_pc = "idle"
    /\ \E n \in 0..MaxEntries : e_entries' = n
    /\ e_entry' = 1
    /\ e_attempt' = 0
    /\ e_pc' = "loop"
    /\ UNCHANGED << e_log, entriesOthers >>

\* Lines 146-150: the three calls return; break leaves the retry loop.
AttemptSucceeds ==
    /\ e_pc = "loop"
    /\ e_entry <= e_entries
    /\ e_attempt < Attempts
    /\ e_log' = Append(e_log, [entry |-> e_entry, attempt |-> e_attempt + 1, ok |-> TRUE])
    /\ e_entry' = e_entry + 1
    /\ e_attempt' = 0
    /\ UNCHANGED << e_pc, e_entries, entriesOthers >>

\* Lines 146-154: one of the three calls raises; the handler logs it.
AttemptFails ==
    /\ e_pc = "loop"
    /\ e_entry <= e_entries
    /\ e_attempt < Attempts
    /\ e_log' = Append(e_log, [entry |-> e_entry, attempt |-> e_attempt + 1, ok |-> FALSE])
    /\ e_pc' = "handler"
    /\ UNCHANGED << e_entries, e_entry, e_attempt, entriesOthers >>

\* Line 155: _ensure_overlay_closed in the handler returns; next attempt.
HandlerReturns ==
    /\ e_pc = "handler"
    /\ e_attempt' = e_attempt + 1
    /\ e_pc' = "loop"
    /\ UNCHANGED << e_entries, e_entry, e_log, entriesOthers >>

\* Line 155 with lines 85-99: _ensure_overlay_closed catches only
\* TimeoutException; any other exception of the driver leaves the handler
\* and process_entries.
HandlerRaises ==
    /\ e_pc = "handler"
    /\ e_pc' = "raised"
    /\ UNCHANGED << e_entries, e_entry, e_attempt, e_log, entriesOthers >>

\* Lines 156-157: range(3) is used up; log the failure, next entry.
EntryGivenUp ==
    /\ e_pc = "loop"
    /\ e_entry <= e_entries
    /\ e_attempt = Attempts
    /\ e_entry' = e_entry + 1
    /\ e_attempt' = 0
    /\ UNCHANGED << e_pc, e_entries, e_log, entriesOthers >>

\* The list is used up; process_entries returns.
EntriesReturn ==
    /\ e_pc = "loop"
    /\ e_entry > e_entries
    /\ e_pc' = "returned"
    /\ UNCHANGED << e_entries, e_entry, e_attempt, e_log, entriesOthers >>

EntriesNext ==
    \/ EntriesStart
    \/ AttemptSucceeds
    \/ AttemptFails
    \/ HandlerReturns
    \/ HandlerRaises
    \/ EntryGivenUp
    \/ EntriesReturn

EntriesSpec == Init /\ [][EntriesNext]_vars

(***************************************************************************)
(* PrestonRPA.start_automation and main.run_automation: the loop over the  *)
(* entries, the running flag and stop() called from another thread         *)
(***************************************************************************)
Callers == {"start_automation", "run_automation"}

autoOthers == << engineStateVars, pureVars, logVars, threadVars, readyVars, entryVars >>

\* PrestonRPA() has set running = True (line 78); the caller is entered
\* with a list of entries.  run_automation goes straight to its loop.
AutoStart ==
    /\ a_pc = "idle"
    /\ \E c \in Callers :
        /\ a_caller' = c
        /\ a_pc' = IF c = "start_automation" THEN "focus" ELSE "head"
    /\ \E n \in 0..MaxEntries : a_entries' = n
    /\ a_entry' = 1
    /\ UNCHANGED << running, a_log, autoOthers >>

\* start_automation line 94: focus_preston_window returns or raises.
FocusWindow ==
    /\ a_pc = "focus"
    /\ \E raises \in BOOLEAN : a_pc' = IF raises THEN "raised" ELSE "ready"
    /\ UNCHANGED << a_caller, a_entries, a_entry, running, a_log, autoOthers >>

\* start_automation lines 95-97: not ready, log and return.
ReadyCheck ==
    /\ a_pc = "ready"
    /\ \E ready \in BOOLEAN : a_pc' = IF ready THEN "head" ELSE "notready"
    /\ UNCHANGED << a_caller, a_entries, a_entry, running, a_log, autoOthers >>

\* Lines 99-100 (main.py 23-24): if not running: break
LoopCheck ==
    /\ a_pc = "head"
    /\ a_entry <= a_entries
    /\ a_pc' = IF running THEN "call" ELSE "returned"
    /\ UNCHANGED << a_caller, a_entries, a_entry, running, a_log, autoOthers >>

\* The list is used up.  run_automation ends with rpa.stop() (main.py 27).
LoopExhausted ==
    /\ a_pc = "head"
    /\ a_entry > a_entries
    /\ a_pc' = "returned"
    /\ running' = IF a_caller = "run_automation" THEN FALSE ELSE running
    /\ UNCHANGED << a_caller, a_entries, a_entry, a_log, autoOthers >>

\* Line 101 (main.py 25): execute_workflow(entry) is entered.
WorkflowStarts ==
    /\ a_pc = "call"
    /\ a_log' = Append(a_log, [entry |-> a_entry, stopped |-> ~running, ended |-> "running"])
    /\ a_pc' = "workflow"
    /\ UNCHANGED << a_caller, a_entries, a_entry, running, autoOthers >>

\* Faulty variant of WorkflowFails: the exception leaves execute_workflow.
WorkflowFails_Propagates ==
    /\ a_pc = "workflow"
    /\ \E at \in {"failed_before_capture", "failed_at_capture"} :
        a_log' = [a_log EXCEPT ![Len(a_log)].ended = at]
    /\ a_pc' = "raised"
    /\ UNCHANGED << a_caller, a_entries, a_entry, running, autoOthers >>

\* execute_workflow lines 184-318: a step before line 252 raises, or line
\* 252 raises AttributeError (OCREngine has no capture_image); the except
\* clause logs it and the method returns.  The loop goes to its next entry.
WorkflowFails ==
    /\ a_pc = "workflow"
    /\ \E at \in {"failed_before_capture", "failed_at_capture"} :
        a_log' = [a_log EXCEPT ![Len(a_log)].ended = at]
    /\ a_entry' = a_entry + 1
    /\ a_pc' = "head"
    /\ UNCHANGED << a_caller, a_entries, running, autoOthers >>

\* Lines 104-105: another thread calls stop() on the PrestonRPA that
\* start_automation runs on.  The PrestonRPA of run_automation is local
\* to it.
Stop ==
    /\ a_caller = "start_automation"
    /\ a_pc \in {"focus", "ready", "head", "call", "workflow"}
    /\ running
    /\ running' = FALSE
    /\ UNCHANGED << a_pc, a_caller, a_entries, a_entry, a_log, autoOthers >>

AutoNext ==
    \/ AutoStart
    \/ FocusWindow
    \/ ReadyCheck
    \/ LoopCheck
    \/ LoopExhausted
    \/ WorkflowStarts
    \/ WorkflowFails
    \/ Stop

AutoSpec == Init /\ [][AutoNext]_vars

(***************************************************************************)
(* Claims about the functions applied on their own (PureSpec)              *)
(***************************************************************************)
\* The spec's end-to-end scenario has been run with threshold 0.8.
ScenarioRun ==
    /\ job.fn = "find_text"
    /\ job.toks = ScenarioTokens
    /\ job.text = ScenarioText
    /\ job.threshold = 80
    /\ out.done

\* C12 as claimed: in the end-to-end scenario (Finans at (0,0,60,20), Izle
\* with a dotted I at (70,2,40,20), variants "Finans - Izle" and
\* "Finans Izle", threshold 0.8) find_text returns the box (0,0,110,20).
C12_ScenarioBoxAsClaimed == ScenarioRun => out.box = <<0, 0, 110, 20>>

\* C12 amended: in that scenario find_text returns (0,0,110,22), the union
\* of the two word boxes: the lower word ends at y = 22.
C12_ScenarioBoxIsUnion == ScenarioRun => out.box = <<0, 0, 110, 22>>

C12_Witness == ScenarioRun /\ out.box # None /\ Len(out.lines) = 1 /\ Len(out.lines[1]) = 2

NormalizeRun == job.fn = "normalize_tr" /\ out.done

\* C13 as claimed: normalize_tr is idempotent, for every input string
\* normalize_tr(normalize_tr(x)) = normalize_tr(x).
C13_NormalizeIdempotent == NormalizeRun => out.str2 = out.str

\* C14 as claimed: spellings that differ only in case or Turkish diacritics
\* normalise to the same ASCII string: the dotted upper-case IZLE and
\* "izle" both give "izle", the dotted upper-case FINANS gives what
\* "finans" gives.
C14_TurkishFolding ==
    NormalizeRun =>
        /\ (job.s \in {IZLE_DOTTED_UPPER, IZLE} => out.str = IZLE)
        /\ (job.s = FINANS_DOTTED_UPPER => out.str = normalize_tr(FINANS))

\* An EasyOCR capture has been aggregated.
EasyOcrRun == job.fn = "find_text" /\ job.easy /\ out.done

\* The reference top of the line row i of the data frame belongs to: the
\* top of the row that opened the line.
LineRefTop(df, i) == df[SetMin({j \in 1..Len(df) : df[j].key = df[i].key})].top

\* C15: the EasyOCR rows are sorted by top and clustered by the vertical
\* gap rule: a row starts a new line exactly when its top exceeds the
\* reference top of the current line by more than 10 px, otherwise it joins
\* the current line; of two words, tops 10 px apart share a line and tops
\* 11 px apart do not.
C15_VerticalGapRule ==
    EasyOcrRun =>
        /\ \A i \in 1..(Len(out.df) - 1) : out.df[i].top <= out.df[i + 1].top
        /\ Len(out.df) > 0 => out.df[1].key[4] = 1
        /\ \A i \in 2..Len(out.df) :
              out.df[i].key[4] =
                  IF out.df[i].top - LineRefTop(out.df, i - 1) > 10
                  THEN out.df[i - 1].key[4] + 1
                  ELSE out.df[i - 1].key[4]
        /\ Len(out.df) = 2 =>
              /\ (out.df[2].top - out.df[1].top = 10 => out.df[2].key = out.df[1].key)
              /\ (out.df[2].top - out.df[1].top = 11 => out.df[2].key # out.df[1].key)

\* Three words at tops 0, 10 and 11: the second joins the first, the third
\* is 11 px below the reference top and opens the second line.
C15_Witness ==
    /\ EasyOcrRun
    /\ Len(out.df) = 3
    /\ out.df[1].top = 0 /\ out.df[2].top = 10 /\ out.df[3].top = 11
    /\ out.df[1].key[4] = 1 /\ out.df[2].key[4] = 1 /\ out.df[3].key[4] = 2

\* A capture of either backend has been aggregated into lines.
AggregationRun == job.fn = "find_text" /\ job.toks \in ListsOf(LineTokens, MaxLineTokens) /\ out.done

\* C16 as claimed: in every line the words are joined in ascending order of
\* their left coordinate, for both backends and whatever order the backend
\* emitted them in.
C16_LineTextByAscendingLeft ==
    AggregationRun =>
        \A n \in 1..Len(out.lines) :
            \A i \in 1..(Len(out.lines[n]) - 1) :
                out.lines[n][i].left <= out.lines[n][i + 1].left

PairRun == job.fn = "find_word_pair" /\ out.done

\* The rows find_word_pair searches: those of confidence conf_min or more.
PairRows == SelectSeq(out.df, LAMBDA r : r.conf >= job.conf_min)

\* Row i spells the left word, row j the right word, on the same line,
\* strictly to the right and less than max_gap away.
QualifyingPair(i, j) ==
    /\ normalize_tr(PairRows[i].text) \in {normalize_tr(FINANS)}
    /\ normalize_tr(PairRows[j].text) \in {normalize_tr(IZLE), normalize_tr(Izle_dotted)}
    /\ PairRows[i].key[4] = PairRows[j].key[4]
    /\ PairRows[j].left > PairRows[i].left
    /\ PairRows[j].left - PairRows[i].left < job.max_gap

QualifyingPairs ==
    {p \in (1..Len(PairRows)) \X (1..Len(PairRows)) : QualifyingPair(p[1], p[2])}

\* The first qualifying pair: line-major, then left to right, for the left
\* word and then for the right word.
FirstPair ==
    CHOOSE p \in QualifyingPairs :
        \A q \in QualifyingPairs :
            LET Lp == PairRows[p[1]]
                Lq == PairRows[q[1]]
            IN  \/ Lp.key[4] < Lq.key[4]
                \/ Lp.key[4] = Lq.key[4] /\ Lp.left < Lq.left
                \/ /\ Lp.key[4] = Lq.key[4] /\ Lp.left = Lq.left
                   /\ PairRows[p[2]].left <= PairRows[q[2]].left

\* The union of the boxes of two rows, in processed-image pixels.
UnionBox(L, R) ==
    << Min2(L.left, R.left), Min2(L.top, R.top),
       Max2(L.left + L.width, R.left + R.width) - Min2(L.left, R.left),
       Max2(L.top + L.height, R.top + R.height) - Min2(L.top, R.top) >>

\* C17: find_word_pair returns no match when no line has a left word
\* followed, strictly to the right and less than max_gap away, by a right
\* word; otherwise it returns the union box of the first such pair
\* (line-major, then left to right), in screen coordinates.  For the
\* spec's Finans at left 0 and Izle at left 100 that is a match with
\* max_gap 300 and no match with max_gap 50.
C17_FirstQualifyingPair ==
    PairRun =>
        /\ out.box = IF QualifyingPairs = {} THEN None
                     ELSE MapToAbsolute(UnionBox(PairRows[FirstPair[1]],
                                                 PairRows[FirstPair[2]]),
                                        ResizeFactor, ResizeFactor,
                                        << job.region[1], job.region[2] >>)
        /\ job.toks = << Word(Finans, 0, 0, 60, 20, 92),
                         Word(Izle_dotted, 100, 2, 40, 20, 88) >> =>
              /\ (job.max_gap = 300 => out.box # None)
              /\ (job.max_gap = 50 => out.box = None)

\* Two left words: the first has its right word exactly max_gap away, the
\* second has it closer, and the pair of the second is returned.
C17_Witness ==
    /\ PairRun
    /\ job.max_gap = 100
    /\ job.toks = << Word(Finans, 0, 0, 60, 20, 92), Word(FINANS, 60, 0, 30, 20, 90),
                     Word(Izle_dotted, 100, 2, 40, 20, 88) >>
    /\ out.box = << 10 + 20, 20, 26, 7 >>

\* A word the filter discards: blank text, or confidence below the
\* caller's threshold.
Discarded(tok) == Strip(tok.text) = <<>> \/ tok.conf < job.confidence

\* The job with the discarded words taken out of the backend's answer.
JobWithoutDiscarded ==
    [job EXCEPT !.toks = SelectSeq(job.toks, LAMBDA tok : ~Discarded(tok))]

\* Text and box of every line, in order.
LineSummary(lines) == [n \in 1..Len(lines) |-> << line_text(lines[n]), LineBox(lines[n]) >>]

\* C18 as claimed: blank words and words below the confidence threshold are
\* discarded before aggregation, so they contribute nothing to any line or
\* returned box: the texts and boxes of the lines, and the returned box,
\* are those of the capture without them.
C18_DiscardedBeforeAggregation ==
    AggregationRun =>
        /\ LineSummary(out.lines) =
              LineSummary(Lines(CaptureOf(JobWithoutDiscarded).df, job.confidence))
        /\ out.box = FindTextEngine(CaptureOf(JobWithoutDiscarded),
                                    TargetsOf(job.text, job.normalize),
                                    job.confidence, job.normalize, job.threshold)

\* C19 as claimed: every word accepted into a line has width > 0 and
\* height > 0.
C19_AcceptedTokensHaveArea ==
    AggregationRun =>
        \A n \in 1..Len(out.lines) :
            \A i \in 1..Len(out.lines[n]) :
                out.lines[n][i].width > 0 /\ out.lines[n][i].height > 0

(***************************************************************************)
(* Claims about get_logger (LogSpec)                                       *)
(***************************************************************************)
\* Calls that deleted LOG_FILE.
Unlinks == {i \in 1..Len(log_events) : log_events[i].unlinked}

\* C20 as claimed: over any sequence of get_logger calls LOG_FILE is deleted
\* at most once, only by the first call, and never once an earlier call has
\* attached a handler that writes to it.
C20_ClearedOnlyOnFirstInit ==
    /\ Cardinality(Unlinks) <= 1
    /\ \A i \in Unlinks :
          /\ i = 1
          /\ ~log_events[i].open
          /\ \A j \in 1..(i - 1) : ~log_events[j].attached

(***************************************************************************)
(* Claims about the engine flags (Spec, ConcSpec)                          *)
(***************************************************************************)
\* C21: outside the try block of _find_text_engine, so after it returned or
\* raised and after every find_text_on_screen call, use_easyocr and reader
\* hold the values they had before the call, those of __init__.
C21_EngineFlagsRestored ==
    pc # "enter" => (use_easyocr = FALSE /\ reader = NoReader)

\* A lookup whose EasyOCR attempt found nothing and whose pytesseract
\* attempt raised has returned.
C21_Witness ==
    /\ caller = "find"
    /\ pc = "done"
    /\ Len(attempts) = 2
    /\ attempts[1].captured /\ attempts[2].raised
    /\ use_easyocr = FALSE /\ reader = NoReader

\* C22 as claimed: with two find_text_on_screen calls running concurrently
\* on one OCREngine every capture runs the backend of its own attempt,
\* whatever the interleaving, and once both calls have finished
\* use_easyocr and reader are back at their original values.
C22_ConcurrentCallsKeepBackend ==
    /\ \A i \in 1..Len(t_captures) : t_captures[i].backend = t_captures[i].attempt
    /\ (\A t \in Threads : t_pc[t] = "done") =>
          (use_easyocr = FALSE /\ reader = NoReader)

\* C23 as claimed: _wait_for_preston_ready returns True only after two
\* consecutive polling iterations have each detected the target text, and
\* it returns False once the deadline has passed without such a streak.
C23_TrueOnlyAfterTwoConsecutiveDetections ==
    /\ ready_result = "true" =>
          /\ Len(ready_iters) >= 2
          /\ ready_iters[Len(ready_iters)] = "found"
          /\ ready_iters[Len(ready_iters) - 1] = "found"
    /\ ready_result = "false" => ready_now >= ready_end_time

\* C24 as claimed: process_entries attempts every entry of the list, in
\* order; an entry is attempted at most 3 times, never again after its
\* first successful attempt, and after 3 failed attempts the loop moves on
\* to the next entry instead of aborting, so when the loop has ended every
\* entry has been attempted.
C24_EveryEntryAttempted ==
    /\ \A i \in 1..Len(e_log) : e_log[i].attempt <= Attempts
    /\ \A i, j \in 1..Len(e_log) :
          i < j => /\ e_log[i].entry <= e_log[j].entry
                   /\ e_log[i].entry = e_log[j].entry => ~e_log[i].ok
    /\ e_pc \in {"returned", "raised"} =>
          \A n \in 1..e_entries : \E i \in 1..Len(e_log) : e_log[i].entry = n

\* The part of C25 that does not depend on when stop() lands: the entries
\* are attempted in order, an exception never leaves the loop once an
\* entry has been attempted, and the loop ends only with every entry
\* attempted or with running False.
C25_AttemptedInOrder ==
    /\ \A i \in 1..Len(a_log) : a_log[i].entry = i
    /\ a_pc \in {"raised", "notready"} => Len(a_log) = 0
    /\ a_pc = "returned" => (Len(a_log) = a_entries \/ ~running)

\* C25 as claimed: every entry is attempted in order until running is
\* False, whatever earlier entries did, and no entry is started after
\* stop() has set running to False.
C25_NoEntryStartedAfterStop ==
    /\ C25_AttemptedInOrder
    /\ \A i \in 1..Len(a_log) : ~a_log[i].stopped

\* C25 amended: every entry is attempted in order until the loop-head check
\* reads running as False, whatever earlier entries did; after stop() has
\* set running to False at most one more entry is started, the one whose
\* check had already passed, and it is the last one.
C25_AtMostOneEntryAfterStop ==
    /\ C25_AttemptedInOrder
    /\ \A i \in 1..Len(a_log) : a_log[i].stopped => i = Len(a_log)

C25_Witness ==
    /\ a_pc = "returned"
    /\ a_caller = "start_automation"
    /\ Len(a_log) = 2
    /\ a_entries = 3
    /\ a_log[1].ended = "failed_at_capture"
    /\ a_log[2].stopped

====
